---- MODULE Spec2Model ----
(***************************************************************************)
(* NexusMods -> GitHub Issues sync (scripts/nexusmods-sync).               *)
(*                                                                         *)
(*   nexusmods_scraper.py  BugReport, NexusModsScraper                     *)
(*   github_sync.py        GitHubSync                                      *)
(*   sync.py               main                                            *)
(*                                                                         *)
(* Four specifications share the module:                                   *)
(*   Spec        GitHubSync: construction, sync_bugs / sync_bug against a  *)
(*               tracker (issues and labels)                               *)
(*   SpecHash    BugReport.content_hash on records that change one field   *)
(*   SpecScrape  NexusModsScraper: scrape_bugs and _fetch_page             *)
(*   SpecMain    main: settings, scrape_bugs, GitHubSync, sync_bugs        *)
(*                                                                         *)
(* Text is a sequence of tokens (TLA+ strings); Str joins the tokens into  *)
(* the Python string.  The tokens are uniquely decodable, so two texts are *)
(* equal exactly when their strings are.  A marker ("[NexusMods Bug #1]",  *)
(* "<!-- content-hash:... -->") is one token, so substring search and the  *)
(* regular expression of the source become searches for a token.           *)
(***************************************************************************)
EXTENDS Naturals, Sequences, FiniteSets, TLC

VARIABLES
    \* ---- the tracker (GitHub repository) and one GitHubSync run
    issues,     \* the repository's issues, issues[n] is issue number n
    labels,     \* the names of the repository's labels
    dry_run,    \* GitHubSync.dry_run of the current run
    pc,         \* "idle" | "syncing" | "returned" | "aborted"
    results,    \* sync_bugs' local list of result dicts
    last,       \* the most recent sync_bug call: its record, the lookup, the action
    calls,      \* the tracker calls made by the most recent operation, in order
    ncalls,     \* number of sync_bug calls made so far
    \* ---- BugReport.content_hash
    rec,        \* a BugReport
    prevRec,    \* the record before its most recent change
    changed,    \* the field the most recent change assigned
    \* ---- NexusModsScraper
    spc,        \* position in scrape_bugs
    page,       \* scrape_bugs' page counter
    bugs,       \* scrape_bugs' list of BugReport
    di,         \* index of the bug whose details are being fetched
    fetch_details, \* scrape_bugs' argument
    served,     \* the listing pages the site has served, in order
    requested,  \* the listing page numbers passed to _fetch_page, in order
    stubs,      \* the listing-derived records, before any detail fetch
    nopage,     \* the indices of the bugs whose detail fetch returned None
    fpc,        \* position in _fetch_page: "idle" | "loop" | "returned"
    attempt,    \* _fetch_page's loop variable
    gets,       \* GET requests made by the current _fetch_page call
    waits,      \* the backoff sleeps of the current _fetch_page call, in order
    soup,       \* what _fetch_page returned (NoPage for None)
    target,     \* what the current _fetch_page call fetches
    \* ---- main (sync.py)
    mpc,        \* position in main
    env,        \* os.environ, for the variables main reads
    args_dry_run, \* args.dry_run
    main_bugs,  \* main's local bugs, once scrape_bugs has returned
    exit_code   \* the process's exit status, once mpc = "exited"

syncVars == <<issues, labels, dry_run, pc, results, last, calls, ncalls>>
hashVars == <<rec, prevRec, changed>>
fetchVars == <<fpc, attempt, gets, waits, soup, target>>
scrapeVars == <<spc, page, bugs, di, fetch_details, served, requested, stubs, nopage>>
mainVars == <<mpc, env, args_dry_run, main_bugs, exit_code>>
vars == <<syncVars, hashVars, scrapeVars, fetchVars, mainVars>>

(***************************************************************************)
(* Bounds of the model.                                                    *)
(***************************************************************************)
\* sync_bug calls over all runs
MaxCalls == 2
\* listing pages that carry a next-page link
MaxPages == 2
\* rows of all listing pages together
MaxRows == 2

(***************************************************************************)
(* Text.                                                                   *)
(***************************************************************************)
RECURSIVE Str(_)
\* "".join(tokens)
Str(t) == IF t = <<>> THEN "" ELSE Head(t) \o Str(Tail(t))

\* Python's `tok in text` for a marker token
Contains(t, tok) == \E i \in DOMAIN t : t[i] = tok

(***************************************************************************)
(* BugReport (nexusmods_scraper.py).                                       *)
(***************************************************************************)
Ids == {"1", "2"}

TITLE_PREFIX == "[NexusMods Bug #"
NEXUSMODS_LABEL == "nexusmods-bug"
SYNCED_LABEL == "synced"
BASE_URL == "https://www.nexusmods.com"

\* f"{TITLE_PREFIX}{bug_id}]"
TitleMarker(id) == TITLE_PREFIX \o id \o "]"

\* f"<!-- content-hash:{hex} -->"
HashMarker(hex) == "<!-- content-hash:" \o hex \o " -->"

\* f"<!-- nexusmods-bug-id:{id} -->"
IdMarker(id) == "<!-- nexusmods-bug-id:" \o id \o " -->"

\* A hex run that is no digest of a record of the model.
ForeignHex == "abc"

\* _parse_bug_row's url
BugUrl(id) == BASE_URL \o "/game/mods/266?tab=bugs&issue_id=" \o id

Titles == {<<"x">>, <<"x", "|", "y">>, <<TitleMarker("1")>>}
Descriptions == {<<"z">>, <<"y", "|", "z">>, <<>>, <<HashMarker(ForeignHex)>>}
Statuses == {"Open", "Closed"}
Dates == {"d1", "d2"}
Authors == {"Unknown", "ann"}
Urls == {BugUrl(id) : id \in Ids}

BugReport == [bug_id : Ids, title : Titles, description : Descriptions,
              author : Authors, date_posted : Dates, status : Statuses, url : Urls]

\* hashlib.md5(s.encode()).hexdigest(), the digest taken as injective
Md5Hex(s) == "md5(" \o s \o ")"

\* content_hash digesting date_posted as a fourth part
ContentHashDate(bug) ==
    Md5Hex(Str(bug.title) \o "|" \o Str(bug.description) \o "|" \o bug.status
           \o "|" \o bug.date_posted)

\* BugReport.content_hash
ContentHash(bug) ==
    Md5Hex(Str(bug.title) \o "|" \o Str(bug.description) \o "|" \o bug.status)

(***************************************************************************)
(* The records handed to sync_bug are listing-derived records of the       *)
(* scraper (author "Unknown", url built from the id).  Bug 1 comes as the  *)
(* plain record or with one of title, description, status changed; bug 2   *)
(* as the plain record or titled with bug 1's marker.                      *)
(***************************************************************************)
Plain(id) == [bug_id |-> id, title |-> <<"x">>, description |-> <<"z">>,
              author |-> "Unknown", date_posted |-> "d1", status |-> "Open",
              url |-> BugUrl(id)]

Differing(a, b) ==
    {f \in {"title", "description", "status", "date_posted", "author", "url"} :
        a[f] # b[f]}

Bugs == {[Plain("1") EXCEPT !.title = t] : t \in Titles}
        \cup {[Plain("1") EXCEPT !.description = d] : d \in Descriptions}
        \cup {[Plain("1") EXCEPT !.status = st] : st \in Statuses}
        \cup {Plain("2"), [Plain("2") EXCEPT !.title = <<TitleMarker("1")>>]}

\* The records scrape_bugs can return from the pages of the model: a listing
\* row's record with the description its detail page gave.
Scraped == {[Plain(id) EXCEPT !.description = d] :
               id \in Ids, d \in {<<>>, <<"z">>, <<"p">>}}

NoBug == [bug_id |-> "", title |-> <<>>, description |-> <<>>, author |-> "",
          date_posted |-> "", status |-> "", url |-> ""]

(***************************************************************************)
(* GitHubSync: titles, bodies, fingerprint extraction (github_sync.py).    *)
(***************************************************************************)
\* _make_issue_title: f"{TITLE_PREFIX}{bug.bug_id}] {bug.title}"
MakeIssueTitle(bug) == <<TitleMarker(bug.bug_id)>> \o bug.title

\* _make_issue_body: "\n".join(body_parts)
MakeIssueBody(bug) ==
    <<"## Bug Report from NexusMods", "">>
    \o (IF bug.description = <<>> THEN <<"*No description provided*">>
        ELSE bug.description)
    \o <<"", "---", "", "### Metadata">>
    \o <<"- **Original URL:** ", bug.url>>
    \o <<"- **Author:** ", bug.author>>
    \o <<"- **Date Posted:** ", bug.date_posted>>
    \o <<"- **Status on NexusMods:** ", bug.status>>
    \o <<"", IdMarker(bug.bug_id), HashMarker(ContentHash(bug))>>

\* The strings [a-f0-9]+ can match in a body of the model.
HexStrings == {ContentHash(r) : r \in BugReport \cup Scraped} \cup {ForeignHex}

\* The tokens "<!-- content-hash:([a-f0-9]+) -->" matches.
HashMarkers == {HashMarker(h) : h \in HexStrings}

\* match.group(1) of such a token
HexOf == [m \in HashMarkers |-> CHOOSE h \in HexStrings : m = HashMarker(h)]

\* Python's None, where a hash string is expected
NoHash == "None"

\* _extract_content_hash: re.search returns the leftmost match
ExtractContentHash(body) ==
    LET at == {i \in DOMAIN body : body[i] \in HashMarkers}
    IN  IF at = {} THEN NoHash
        ELSE HexOf[body[CHOOSE k \in at : \A j \in at : k <= j]]

\* The markers, fingerprints, titles and bodies of the records handed to
\* sync_bug, computed once.
TitleMarkers == [id \in Ids |-> TitleMarker(id)]
Fingerprints == [b \in Bugs \cup Scraped |-> ContentHash(b)]
IssueTitles == [b \in Bugs \cup Scraped |-> MakeIssueTitle(b)]
IssueBodies == [b \in Bugs \cup Scraped |-> MakeIssueBody(b)]

(***************************************************************************)
(* The tracker: issues, labels, search and listing.                        *)
(***************************************************************************)
Outcomes == {"ok", "raise"}

RECURSIVE Desc(_, _)
\* The numbers of S from n down to 1: newest issue first.
Desc(n, S) == IF n = 0 THEN <<>>
              ELSE (IF n \in S THEN <<n>> ELSE <<>>) \o Desc(n - 1, S)

\* github.search_issues('repo:... "[NexusMods Bug #<id>]" in:title')
SearchIssues(iss, bug_id) ==
    Desc(Len(iss), {n \in DOMAIN iss : Contains(iss[n].title, TitleMarkers[bug_id])})

\* repo.get_issues(state="all", labels=[label])
GetIssues(iss, label) ==
    Desc(Len(iss), {n \in DOMAIN iss : label \in iss[n].labels})

\* for issue in results: if marker in issue.title: return issue  (0: none)
FirstMatch(iss, nums, bug_id) ==
    LET at == {i \in DOMAIN nums : Contains(iss[nums[i]].title, TitleMarkers[bug_id])}
    IN  IF at = {} THEN 0 ELSE nums[CHOOSE k \in at : \A j \in at : k <= j]

\* _find_existing_issue whose fallback is not wrapped in try/except
FindExistingIssueUncaught(iss, bug_id, so, lo) ==
    LET a == IF so = "ok" THEN FirstMatch(iss, SearchIssues(iss, bug_id), bug_id) ELSE 0
        b == IF lo = "ok" THEN FirstMatch(iss, GetIssues(iss, NEXUSMODS_LABEL), bug_id) ELSE 0
    IN  IF a # 0
        THEN [issue |-> a, calls |-> <<"search_issues">>, search |-> so,
              listing |-> "skipped", raised |-> FALSE]
        ELSE [issue |-> b, calls |-> <<"search_issues", "get_issues">>, search |-> so,
              listing |-> lo, raised |-> lo = "raise"]

\* _find_existing_issue.  so, lo: what search_issues and get_issues do when
\* called.  issue is the number found, 0 for None; raised: an exception leaves
\* the method.
FindExistingIssue(iss, bug_id, so, lo) ==
    LET a == IF so = "ok" THEN FirstMatch(iss, SearchIssues(iss, bug_id), bug_id) ELSE 0
        b == IF lo = "ok" THEN FirstMatch(iss, GetIssues(iss, NEXUSMODS_LABEL), bug_id) ELSE 0
    IN  IF a # 0
        THEN [issue |-> a, calls |-> <<"search_issues">>, search |-> so,
              listing |-> "skipped", raised |-> FALSE]
        ELSE [issue |-> b, calls |-> <<"search_issues", "get_issues">>, search |-> so,
              listing |-> lo, raised |-> FALSE]

\* repo.create_issue(title, body, labels): the new issue gets the next number
CreateIssue(iss, title, body, labs) ==
    Append(iss, [number |-> Len(iss) + 1, title |-> title, body |-> body, labels |-> labs])

\* issue.edit(body=new_body, labels=[SYNCED_LABEL])
EditBodyAndLabels(iss, n, body) ==
    [iss EXCEPT ![n].body = body, ![n].labels = {SYNCED_LABEL}]

\* issue.edit(body=new_body)
EditBody(iss, n, body) == [iss EXCEPT ![n].body = body]

Mutating == {"create_label", "create_issue", "edit"}

NoMutation(cs) == \A i \in DOMAIN cs : cs[i] \notin Mutating

\* how often call c occurs in a call sequence
Count(cs, c) == Cardinality({i \in DOMAIN cs : cs[i] = c})

(***************************************************************************)
(* GitHubSync.sync_bug.  mo: what create_issue or edit does when called.   *)
(* The outcome: the tracker's issues afterwards, the lookup, the result    *)
(* dict's action and issue_number (0 for "(new)"), the tracker calls made, *)
(* and whether an exception leaves the method (then nothing is returned).  *)
(***************************************************************************)
\* the outcome of a sync_bug that catches what create_issue or edit raises
SyncOutcomeSwallowed(iss, lk, action, number, mutation, raised) ==
    [issues |-> iss, existing |-> lk.issue, search |-> lk.search, listing |-> lk.listing,
     action |-> action, number |-> number, calls |-> lk.calls \o mutation, raised |-> FALSE]

SyncOutcome(iss, lk, action, number, mutation, raised) ==
    [issues |-> iss, existing |-> lk.issue, search |-> lk.search, listing |-> lk.listing,
     action |-> action, number |-> number, calls |-> lk.calls \o mutation, raised |-> raised]

\* sync_bug's branches with the fingerprint comparison left out
BranchNoCompare(n, existing_hash, new_hash, dry) ==
    IF n # 0
    THEN IF dry THEN "would_update" ELSE "updated"
    ELSE IF dry THEN "would_create" ELSE "created"

\* sync_bug's branches (lines 127-169): n is the issue found, 0 for None
Branch(n, existing_hash, new_hash, dry) ==
    IF n # 0
    THEN IF existing_hash = new_hash THEN "unchanged"
         ELSE IF dry THEN "would_update" ELSE "updated"
    ELSE IF dry THEN "would_create" ELSE "created"

SyncBugOutcome(iss, dry, bug, so, lo, mo) ==
    LET lk == FindExistingIssue(iss, bug.bug_id, so, lo)
        n  == lk.issue
        existing_hash == IF n # 0 THEN ExtractContentHash(iss[n].body) ELSE NoHash
        br == Branch(n, existing_hash, Fingerprints[bug], dry)
    IN  IF lk.raised THEN SyncOutcome(iss, lk, "raised", 0, <<>>, TRUE)
        ELSE IF br = "updated"
        THEN IF mo = "raise"
             THEN SyncOutcome(iss, lk, "raised", 0, <<"edit">>, TRUE)
             ELSE SyncOutcome(EditBody(iss, n, IssueBodies[bug]), lk,
                              "updated", n, <<"edit">>, FALSE)
        ELSE IF br = "created"
        THEN IF mo = "raise"
             THEN SyncOutcome(iss, lk, "raised", 0, <<"create_issue">>, TRUE)
             ELSE SyncOutcome(CreateIssue(iss, IssueTitles[bug], IssueBodies[bug],
                                          {NEXUSMODS_LABEL, SYNCED_LABEL}), lk,
                              "created", Len(iss) + 1, <<"create_issue">>, FALSE)
        ELSE SyncOutcome(iss, lk, br, n, <<>>, FALSE)

(***************************************************************************)
(* GitHubSync._ensure_labels.  gl, cl: what get_labels and create_label do *)
(* when called.                                                            *)
(***************************************************************************)
\* _ensure_labels creating both labels without looking at the listing
EnsureLabelsAlwaysCreates(labs, gl, cl) ==
    IF gl = "raise"
    THEN [labels |-> labs, calls |-> <<"get_labels">>, raised |-> TRUE]
    ELSE IF cl = "raise"
    THEN [labels |-> labs, calls |-> <<"get_labels", "create_label">>, raised |-> TRUE]
    ELSE [labels |-> labs \cup {NEXUSMODS_LABEL, SYNCED_LABEL},
          calls |-> <<"get_labels", "create_label", "create_label">>,
          raised |-> FALSE]

EnsureLabels(labs, gl, cl) ==
    LET need1 == NEXUSMODS_LABEL \notin labs
        need2 == SYNCED_LABEL \notin labs
    IN  IF gl = "raise"
        THEN [labels |-> labs, calls |-> <<"get_labels">>, raised |-> TRUE]
        ELSE IF (need1 \/ need2) /\ cl = "raise"
        THEN [labels |-> labs, calls |-> <<"get_labels", "create_label">>, raised |-> TRUE]
        ELSE [labels |-> labs \cup {NEXUSMODS_LABEL, SYNCED_LABEL},
              calls |-> <<"get_labels">>
                        \o (IF need1 THEN <<"create_label">> ELSE <<>>)
                        \o (IF need2 THEN <<"create_label">> ELSE <<>>),
              raised |-> FALSE]

\* __init__ calling _ensure_labels whatever dry_run is
ConstructAlwaysEnsures(labs, dry, gl, cl) ==
    LET e == EnsureLabels(labs, gl, cl)
    IN  [labels |-> e.labels, calls |-> <<"get_repo">> \o e.calls, raised |-> e.raised]

\* GitHubSync.__init__
ConstructOutcome(labs, dry, gl, cl) ==
    IF dry THEN [labels |-> labs, calls |-> <<"get_repo">>, raised |-> FALSE]
    ELSE LET e == EnsureLabels(labs, gl, cl)
         IN  [labels |-> e.labels, calls |-> <<"get_repo">> \o e.calls, raised |-> e.raised]

NoLast == [bug |-> NoBug, existing |-> 0, search |-> "none", listing |-> "none",
           action |-> "none"]

\* An issue a previous run created for the plain record of bug 1.
SyncedIssue == [number |-> 1, title |-> MakeIssueTitle(Plain("1")),
                body |-> MakeIssueBody(Plain("1")),
                labels |-> {NEXUSMODS_LABEL, SYNCED_LABEL}]

\* The same issue after a maintainer rewrote its body by hand.
HandEditedIssue == [SyncedIssue EXCEPT !.body = <<"rewritten by hand">>]

SeedTrackers == {<<>>, <<SyncedIssue>>, <<HandEditedIssue>>}

(***************************************************************************)
(* Pages of the site (nexusmods_scraper.py).  A page is what the selectors *)
(* of the source read from it:                                             *)
(*   rows      the rows "table.forum-bugs tbody tr.mod-issue-row" selects  *)
(*   fallback  the rows "tr[data-issue-id]" selects                        *)
(*   next      whether the next-page selector finds a link                 *)
(*   desc      the text of the first description selector that matches     *)
(*   paras     the first three paragraphs of the main content area         *)
(* A row is its data-issue-id ("" when missing or empty), title, status    *)
(* and date.                                                               *)
(***************************************************************************)
Retries == 3

NoPage == [kind |-> "none", rows |-> <<>>, fallback |-> <<>>, next |-> FALSE,
           desc |-> <<>>, paras |-> <<>>]

Rows == {[id |-> i, title |-> <<"x">>, status |-> "Open", date |-> "d1"] :
            i \in Ids \cup {""}}

RowLists == UNION {[1..n -> Rows] : n \in 0..MaxRows}

\* The fallback selector is only consulted on a page whose first selector
\* finds nothing.
ListingPages ==
    {[kind |-> "listing", rows |-> rs, fallback |-> fb, next |-> nx,
      desc |-> <<>>, paras |-> <<>>] :
        rs \in RowLists, fb \in {<<>>} \cup {<<r>> : r \in Rows}, nx \in BOOLEAN}
    \ {p \in [kind : {"listing"}, rows : RowLists, fallback : RowLists, next : BOOLEAN,
              desc : {<<>>}, paras : {<<>>}] : p.rows # <<>> /\ p.fallback # <<>>}

DetailPages ==
    {[kind |-> "detail", rows |-> <<>>, fallback |-> <<>>, next |-> FALSE,
      desc |-> d, paras |-> ps] :
        d \in {<<>>, <<"z">>}, ps \in {<<>>, <<"p">>}}

\* _get_bugs_url
GetBugsUrl(p) ==
    BASE_URL \o "/game/mods/266?tab=bugs"
    \o (IF p > 1 THEN "&BusLoadAllRecords=false&page=" \o ToString(p) ELSE "")

\* the backoff computed from the number of the coming attempt
WaitTimeNext(a) == 2 ^ (a + 1)

\* wait_time = 2 ** attempt
WaitTime(a) == 2 ^ a

\* _parse_bug_row (NoBug for None)
ParseBugRow(row) ==
    IF row.id = "" THEN NoBug
    ELSE [bug_id |-> row.id, title |-> row.title, description |-> <<>>,
          author |-> "Unknown", date_posted |-> row.date, status |-> row.status,
          url |-> BugUrl(row.id)]

RECURSIVE PageBugs(_)
\* page_bugs: the parsed rows that are not None, in row order
PageBugs(rows) ==
    IF rows = <<>> THEN <<>>
    ELSE (IF ParseBugRow(Head(rows)) = NoBug THEN <<>> ELSE <<ParseBugRow(Head(rows))>>)
         \o PageBugs(Tail(rows))

\* bug_rows: the first selector's rows, or else the fallback selector's
BugRows(p) == IF p.rows # <<>> THEN p.rows ELSE p.fallback

\* bugs = page_bugs in place of bugs.extend(page_bugs)
ExtendOverwrites(list, page_bugs) == page_bugs

\* bugs.extend(page_bugs)
Extend(list, page_bugs) == list \o page_bugs

\* FetchBugDetails dropping the record when no page came back
FetchBugDetailsOrNone(bug, pg) ==
    IF pg = NoPage THEN NoBug
    ELSE LET d1 == IF pg.desc # <<>> THEN pg.desc ELSE bug.description
             d2 == IF d1 = <<>> /\ pg.paras # <<>> THEN pg.paras ELSE d1
         IN  [bug EXCEPT !.description = d2]

\* _fetch_bug_details, given what _fetch_page returned
FetchBugDetails(bug, pg) ==
    IF pg = NoPage THEN bug
    ELSE LET d1 == IF pg.desc # <<>> THEN pg.desc ELSE bug.description
             d2 == IF d1 = <<>> /\ pg.paras # <<>> THEN pg.paras ELSE d1
         IN  [bug EXCEPT !.description = d2]

(***************************************************************************)
(* The environment of main (sync.py).  A variable is unset, empty, blank or *)
(* holds a value.                                                          *)
(***************************************************************************)
EnvNames == {"NEXUSMODS_GAME", "NEXUSMODS_MOD_ID", "GITHUB_TOKEN", "GITHUB_REPO",
             "GITHUB_REPOSITORY"}

Unset == "<unset>"

EnvValues == {Unset, "", " ", "v"}

NoEnv == [n \in EnvNames |-> Unset]

\* str.strip() on the values of the model
Strip(s) == IF s \in {"", " "} THEN "" ELSE s

\* get_env_var reading the variable without .strip()
EnvValueUnstripped(e, name) == IF e[name] = Unset THEN "" ELSE e[name]

\* os.environ.get(name, "").strip()
EnvValue(e, name) == Strip(IF e[name] = Unset THEN "" ELSE e[name])

(***************************************************************************)
(* Spec: runs of GitHubSync against the tracker.  A run is the             *)
(* construction followed by sync_bugs (sync.py, main); sync_bugs' list is  *)
(* revealed one record at a time, as its for loop reads it.                *)
(***************************************************************************)
HashIdle == rec = NoBug /\ prevRec = NoBug /\ changed = "none"

ScrapeIdle ==
    /\ spc = "idle" /\ page = 0 /\ bugs = <<>> /\ di = 0 /\ fetch_details = FALSE
    /\ served = <<>> /\ requested = <<>> /\ stubs = <<>> /\ nopage = {}
    /\ fpc = "idle" /\ attempt = 0 /\ gets = 0 /\ waits = <<>> /\ soup = NoPage
    /\ target = "none"

\* main is not running
MainIdle ==
    /\ mpc = "idle" /\ env = NoEnv /\ args_dry_run = FALSE
    /\ main_bugs = <<>> /\ exit_code = 0

SyncInit ==
    /\ issues \in SeedTrackers
    /\ labels \in (IF issues = <<>> THEN SUBSET {NEXUSMODS_LABEL, SYNCED_LABEL}
                   ELSE {{NEXUSMODS_LABEL, SYNCED_LABEL}})
    /\ dry_run = FALSE
    /\ pc = "idle"
    /\ results = <<>>
    /\ last = NoLast
    /\ calls = <<>>
    /\ ncalls = 0

Init == SyncInit /\ HashIdle /\ ScrapeIdle /\ MainIdle

\* github_sync = GitHubSync(token, repo, dry_run=args.dry_run).  gl, cl: what
\* get_labels and create_label do when called; one that is not called is taken
\* as "ok".
Construct ==
    /\ pc \in {"idle", "returned", "aborted"}
    /\ \E dry \in BOOLEAN, gl \in Outcomes, cl \in Outcomes :
          LET o == ConstructOutcome(labels, dry, gl, cl)
          IN  /\ Count(o.calls, "get_labels") = 0 => gl = "ok"
              /\ Count(o.calls, "create_label") = 0 => cl = "ok"
              /\ dry_run' = dry
              /\ labels' = o.labels
              /\ calls' = o.calls
              /\ pc' = IF o.raised THEN "aborted" ELSE "syncing"
    /\ results' = <<>>
    /\ UNCHANGED <<issues, last, ncalls>>
    /\ UNCHANGED <<hashVars, scrapeVars, fetchVars, mainVars>>

\* One iteration of sync_bugs' loop: result = self.sync_bug(bug);
\* results.append(result).  so, lo, mo: what search_issues, get_issues and the
\* mutating call do when called; one that is not called is taken as "ok".
SyncBug ==
    /\ pc = "syncing"
    /\ ncalls < MaxCalls
    /\ \E bug \in Bugs, so \in Outcomes, lo \in Outcomes, mo \in Outcomes :
          LET o == SyncBugOutcome(issues, dry_run, bug, so, lo, mo)
          IN  /\ o.listing = "skipped" => lo = "ok"
              /\ NoMutation(o.calls) => mo = "ok"
              /\ issues' = o.issues
              /\ calls' = o.calls
              /\ last' = [bug |-> bug, existing |-> o.existing, search |-> o.search,
                          listing |-> o.listing, action |-> o.action]
              /\ IF o.raised
                 THEN pc' = "aborted" /\ results' = <<>>
                 ELSE /\ pc' = "syncing"
                      /\ results' = Append(results, [bug_id |-> bug.bug_id,
                                                     action |-> o.action,
                                                     issue_number |-> o.number])
    /\ ncalls' = ncalls + 1
    /\ UNCHANGED <<labels, dry_run>>
    /\ UNCHANGED <<hashVars, scrapeVars, fetchVars, mainVars>>

\* sync_bugs: the list is exhausted, return results
SyncBugsReturn ==
    /\ pc = "syncing"
    /\ pc' = "returned"
    /\ calls' = <<>>
    /\ UNCHANGED <<issues, labels, dry_run, results, last, ncalls>>
    /\ UNCHANGED <<hashVars, scrapeVars, fetchVars, mainVars>>

Next == Construct \/ SyncBug \/ SyncBugsReturn

Spec == Init /\ [][Next]_vars

(***************************************************************************)
(* Properties of GitHubSync (checked under Spec).                          *)
(***************************************************************************)
\* a step that is one sync_bug call
SyncStep == ncalls' = ncalls + 1

\* every tracker call the lookup made returned normally
LookupSucceeded(l) == l.search = "ok" /\ l.listing # "raise"

\* the issues whose title carries the marker of bug id
IssuesFor(iss, id) == {n \in DOMAIN iss : Contains(iss[n].title, TitleMarker(id))}

\* C1: Idempotence of sync_bug.  Outside dry-run, when sync_bug(r) returned
\* "created" after a lookup whose calls succeeded, the next sync_bug call, if it
\* is for the same record r and its lookup calls succeed, returns "unchanged",
\* makes no create_issue and no edit call, and exactly one issue carries r's
\* marker afterwards.
C1_CreatedThenUnchanged ==
    [][(/\ SyncStep
        /\ ~dry_run'
        /\ last.action = "created" /\ LookupSucceeded(last)
        /\ last'.bug = last.bug /\ LookupSucceeded(last'))
       => (/\ last'.action = "unchanged"
           /\ NoMutation(calls')
           /\ Cardinality(IssuesFor(issues', last'.bug.bug_id)) = 1)]_vars

\* C2: Dry-run purity.  Every step of a dry run (the construction, each
\* sync_bug, the return) makes no mutating tracker call and leaves the issues
\* and the labels as they were; every result action of a dry run is one of
\* would_create, would_update, unchanged.
C2_DryRunPure ==
    /\ [][dry_run' => (/\ NoMutation(calls')
                       /\ issues' = issues
                       /\ labels' = labels)]_vars
    /\ [](dry_run => \A i \in DOMAIN results :
                        results[i].action \in {"would_create", "would_update", "unchanged"})

\* C2 witness: a dry run returned a list holding a would_update and a would_create.
C2_Witness ==
    /\ dry_run /\ pc = "returned"
    /\ \E i, j \in DOMAIN results :
          results[i].action = "would_update" /\ results[j].action = "would_create"

\* C3: No duplicate issues.  create_issue is never called for a bug id while
\* the tracker holds an issue whose title carries that id's marker, whatever the
\* search and listing calls do; hence no two issues are titled for the same id.
C3_NoDuplicateCreate ==
    /\ [][(SyncStep /\ Count(calls', "create_issue") > 0)
          => IssuesFor(issues, last'.bug.bug_id) = {}]_vars
    /\ [](\A n, m \in DOMAIN issues : issues[n].title[1] = issues[m].title[1] => n = m)

\* C4: Decision table of sync_bug.  With n the issue the lookup returned (0:
\* none), oldFp the fingerprint extracted from its body (NoHash without marker)
\* and newFp the record's: a call that returns gives created / would_create for
\* n = 0, unchanged for equal fingerprints, updated / would_update otherwise;
\* created appends exactly one issue by one create_issue call, updated rewrites
\* the body of issue n by one edit call, every other action makes no mutating
\* call and leaves the issues alone; a call that does not return is one whose
\* single create_issue or edit call raised.
C4_DecisionTable ==
    [][SyncStep =>
        LET n == last'.existing
            oldFp == IF n # 0 THEN ExtractContentHash(issues[n].body) ELSE NoHash
            newFp == ContentHash(last'.bug)
            a == last'.action
            expected == IF n = 0 THEN (IF dry_run THEN "would_create" ELSE "created")
                        ELSE IF oldFp = newFp THEN "unchanged"
                        ELSE IF dry_run THEN "would_update" ELSE "updated"
        IN  /\ a \in {expected, "raised"}
            /\ a = "raised" => /\ expected \in {"created", "updated"}
                               /\ issues' = issues
                               /\ Count(calls', "create_issue") + Count(calls', "edit") = 1
            /\ a = "created" => /\ Count(calls', "create_issue") = 1
                                /\ Count(calls', "edit") = 0
                                /\ Len(issues') = Len(issues) + 1
                                /\ \A m \in DOMAIN issues : issues'[m] = issues[m]
            /\ a = "updated" => /\ Count(calls', "edit") = 1
                                /\ Count(calls', "create_issue") = 0
                                /\ issues' = [issues EXCEPT ![n].body = issues'[n].body]
            /\ a \in {"unchanged", "would_create", "would_update"}
                  => NoMutation(calls') /\ issues' = issues]_vars

\* C4 witness: in a dry run the lookup found an issue whose body carries no
\* fingerprint marker, and the call returned would_update.
C4_Witness ==
    /\ dry_run
    /\ last.action = "would_update"
    /\ last.existing # 0
    /\ ExtractContentHash(issues[last.existing].body) = NoHash

\* C5: Update converges.  When sync_bug(r) returned "updated", the edited
\* issue's body reads back r's fingerprint, and the next sync_bug call, if it is
\* for the same record and its lookup calls succeed, returns "unchanged" and
\* makes no edit call.
C5_UpdatedThenUnchanged ==
    /\ [](last.action = "updated" /\ calls # <<>> /\ calls[Len(calls)] = "edit"
            => ExtractContentHash(issues[last.existing].body) = ContentHash(last.bug))
    /\ [][(/\ SyncStep
           /\ last.action = "updated"
           /\ last'.bug = last.bug /\ LookupSucceeded(last'))
          => (last'.action = "unchanged" /\ Count(calls', "edit") = 0)]_vars

\* C7: Lookup never raises and tries the strategies in order.  Every sync_bug
\* call starts with the title search; when the search raises, or finds no
\* issue, the label listing is called next and nothing else of the lookup;
\* when both raise the lookup returns None and sync_bug goes on to its
\* not-found branch.  A sync_bug call that ends in an exception is one whose
\* create_issue or edit call raised.
C7_LookupNeverRaises ==
    [][SyncStep =>
        /\ calls'[1] = "search_issues"
        /\ Count(calls', "search_issues") = 1
        /\ Count(calls', "get_issues") <= 1
        /\ last'.search = "raise" => /\ Len(calls') >= 2
                                     /\ calls'[2] = "get_issues"
                                     /\ last'.listing \in Outcomes
        /\ last'.listing = "skipped" => last'.search = "ok" /\ last'.existing # 0
        /\ last'.existing \in 0..Len(issues)
        /\ (last'.search = "raise" /\ last'.listing = "raise")
              => /\ last'.existing = 0
                 /\ last'.action \in {"created", "would_create", "raised"}
        /\ last'.action = "raised"
              => calls'[Len(calls')] \in {"create_issue", "edit"}]_vars

\* C7 witness: search and listing both raised, the lookup returned None
\* although an issue for the id exists, and sync_bug went on to create.
C7_Witness ==
    /\ last.search = "raise" /\ last.listing = "raise"
    /\ last.existing = 0
    /\ last.action = "created"
    /\ Cardinality(IssuesFor(issues, last.bug.bug_id)) = 2

\* C8: Mutation failure aborts the run without rollback.  When create_issue or
\* edit raises in a sync_bug call, the run is aborted in that step, the issues
\* and labels stay as the earlier calls of the run wrote them, and sync_bugs'
\* results are lost; an aborted run makes no further sync_bug call and never
\* returns a list.
C8_MutationFailureAborts ==
    /\ [][(SyncStep /\ last'.action = "raised")
          => (/\ pc' = "aborted"
              /\ results' = <<>>
              /\ issues' = issues
              /\ labels' = labels)]_vars
    /\ [][pc = "aborted" => (ncalls' = ncalls /\ pc' # "returned" /\ issues' = issues)]_vars

\* C8 witness: the second sync_bug of a run raised after the first one had
\* rewritten an issue for a record with status Closed, which is still there.
C8_Witness ==
    /\ pc = "aborted" /\ last.action = "raised" /\ ncalls = 2
    /\ \E n \in DOMAIN issues : Contains(issues[n].body, "Closed")

\* C15: Label bootstrap is idempotent.  A construction outside dry-run calls
\* create_label at most once per label missing from the repository, and when
\* it completes exactly once per missing label and none for a label present,
\* after which both labels exist; a construction against a repository that has
\* both labels calls create_label zero times, and the labels, once both
\* exist, stay as they are.
C15_LabelBootstrapIdempotent ==
    /\ [][(pc \in {"idle", "returned", "aborted"} /\ ~dry_run')
            => LET absent == {NEXUSMODS_LABEL, SYNCED_LABEL} \ labels
               IN  /\ Count(calls', "create_label") <= Cardinality(absent)
                   /\ pc' = "syncing"
                        => /\ labels' = labels \cup {NEXUSMODS_LABEL, SYNCED_LABEL}
                           /\ Count(calls', "create_label") = Cardinality(absent)
                           /\ Count(calls', "get_labels") = 1]_vars
    /\ [][{NEXUSMODS_LABEL, SYNCED_LABEL} \subseteq labels => labels' = labels]_vars

\* C15 witness: a construction outside dry-run, after an earlier run outside
\* dry-run created an issue for bug 2, listed the labels and created none.
C15_Witness ==
    /\ pc = "syncing" /\ ~dry_run
    /\ calls = <<"get_repo", "get_labels">>
    /\ labels = {NEXUSMODS_LABEL, SYNCED_LABEL}
    /\ \E n \in DOMAIN issues : issues[n].title = IssueTitles[Plain("2")]

\* the ordered tuple the fingerprint is meant to stand for
Triple(bug) == <<bug.title, bug.description, bug.status>>

\* C17: Every content change is detected.  When the lookup finds an issue
\* whose body was written from a record with a (title, description, status)
\* triple other than the incoming record's, sync_bug does not return
\* "unchanged".
C17_EveryChangeDetected ==
    [][(/\ SyncStep
        /\ last'.existing # 0
        /\ \E r \in Bugs : /\ issues[last'.existing].body = IssueBodies[r]
                           /\ Triple(r) # Triple(last'.bug))
       => last'.action # "unchanged"]_vars

\* every issue of the tracker is as a create_issue call of sync_bug made it,
\* its body as sync_bug wrote it
ProgramMade(iss) ==
    \A n \in DOMAIN iss :
        /\ \E r \in Bugs : iss[n].title = IssueTitles[r]
        /\ \E r \in Bugs : iss[n].body = IssueBodies[r]
        /\ iss[n].labels = {NEXUSMODS_LABEL, SYNCED_LABEL}

\* C19: Lookup returns only the issue of the requested bug.  In a tracker
\* whose issues were all made by this program, the issue the lookup returns
\* for bug id X was created for X: its title begins with X's marker and its
\* body carries X's id marker.
C19_LookupReturnsOwnIssue ==
    [][(SyncStep /\ last'.existing # 0 /\ ProgramMade(issues))
       => LET found == issues[last'.existing]
              id == last'.bug.bug_id
          IN  /\ Head(found.title) = TitleMarker(id)
              /\ Contains(found.body, IdMarker(id))]_vars

\* C20: Frame of an update.  A sync_bug that returns "updated" makes one edit
\* call and no create_issue call; the issue found keeps its number, title and
\* labels and gets the regenerated body; every other issue, the number of
\* issues and the repository's labels are as before.
C20_UpdateFrame ==
    [][(SyncStep /\ last'.action = "updated")
       => LET n == last'.existing
          IN  /\ n \in DOMAIN issues
              /\ Len(issues') = Len(issues)
              /\ \A k \in DOMAIN issues : k # n => issues'[k] = issues[k]
              /\ issues'[n] = [issues[n] EXCEPT !.body = MakeIssueBody(last'.bug)]
              /\ Count(calls', "create_issue") = 0
              /\ Count(calls', "edit") = 1
              /\ labels' = labels]_vars

\* C20 witness: bug 1's issue was updated from a record with another title and
\* keeps the title it was created with.
C20_Witness ==
    /\ last.action = "updated" /\ pc = "syncing"
    /\ last.bug.bug_id = "1" /\ last.bug.title # <<"x">>
    /\ issues[last.existing].title = MakeIssueTitle(Plain("1"))
    /\ issues[last.existing].body = MakeIssueBody(last.bug)

(***************************************************************************)
(* SpecHash: a BugReport whose fields are assigned one at a time.          *)
(***************************************************************************)
SyncIdle ==
    /\ issues = <<>> /\ labels = {} /\ dry_run = FALSE /\ pc = "idle"
    /\ results = <<>> /\ last = NoLast /\ calls = <<>> /\ ncalls = 0

FieldValues == [title |-> Titles, description |-> Descriptions, status |-> Statuses,
                author |-> Authors, date_posted |-> Dates, url |-> Urls]

InitHash ==
    /\ rec \in BugReport /\ prevRec = rec /\ changed = "none"
    /\ SyncIdle /\ ScrapeIdle /\ MainIdle

\* bug.<field> = v, for a value other than the field's present one
Assign ==
    /\ \E f \in DOMAIN FieldValues : \E v \in FieldValues[f] :
          /\ v # rec[f]
          /\ rec' = [rec EXCEPT ![f] = v]
          /\ changed' = f
    /\ prevRec' = rec
    /\ UNCHANGED <<syncVars, scrapeVars, fetchVars, mainVars>>

NextHash == Assign

SpecHash == InitHash /\ [][NextHash]_vars

\* C6: Fingerprint sensitivity.  Assigning only author, date_posted or url
\* leaves content_hash as it was; assigning a different value to only one of
\* title, description, status changes it (the digest taken as injective).
C6_FingerprintSensitivity ==
    /\ changed \in {"author", "date_posted", "url"}
          => ContentHash(rec) = ContentHash(prevRec)
    /\ changed \in {"title", "description", "status"}
          => ContentHash(rec) # ContentHash(prevRec)

\* C6 witness: only date_posted was assigned, to a different value.
C6_Witness ==
    /\ changed = "date_posted"
    /\ Differing(rec, prevRec) = {"date_posted"}

\* C18: Marker round-trip.  For every record, the fingerprint extracted from
\* the body _make_issue_body builds for it is the record's content_hash.
C18_MarkerRoundTrip ==
    ExtractContentHash(MakeIssueBody(rec)) = ContentHash(rec)

(***************************************************************************)
(* SpecScrape: one call of NexusModsScraper.scrape_bugs.  The site serves  *)
(* a listing page when it is fetched; at most MaxPages listing pages are   *)
(* linked to one another and they hold at most MaxRows rows.  The sleeps   *)
(* of self.delay are not modelled.                                         *)
(***************************************************************************)
\* soup = self._fetch_page(url): the call has entered its loop
StartFetch(url) ==
    /\ fpc' = "loop" /\ attempt' = 0 /\ gets' = 0 /\ waits' = <<>>
    /\ soup' = NoPage /\ target' = url

InitScrape ==
    /\ spc = "listing" /\ page = 1 /\ bugs = <<>> /\ di = 0
    /\ fetch_details \in BOOLEAN
    /\ served = <<>> /\ requested = <<1>> /\ stubs = <<>> /\ nopage = {}
    /\ fpc = "loop" /\ attempt = 0 /\ gets = 0 /\ waits = <<>> /\ soup = NoPage
    /\ target = GetBugsUrl(1)
    /\ SyncIdle /\ HashIdle /\ MainIdle

RECURSIVE RowCount(_)
\* the rows of a sequence of listing pages
RowCount(ps) ==
    IF ps = <<>> THEN 0
    ELSE Len(Head(ps).rows) + Len(Head(ps).fallback) + RowCount(Tail(ps))

\* What a successful GET of the current target parses to.
Responses ==
    IF spc = "listing"
    THEN {p \in ListingPages :
            /\ p.next => page < MaxPages
            /\ RowCount(served) + Len(p.rows) + Len(p.fallback) <= MaxRows}
    ELSE DetailPages

\* One iteration of _fetch_page's loop.  session: whether create_scraper, called
\* on a retry, returns; get: whether session.get and raise_for_status return.
FetchAttempt ==
    /\ fpc = "loop"
    /\ attempt < Retries
    /\ \E session \in Outcomes, get \in Outcomes, p \in Responses :
          LET tried == attempt = 0 \/ session = "ok"
              ok == tried /\ get = "ok"
          IN  /\ waits' = IF attempt > 0 THEN Append(waits, WaitTime(attempt)) ELSE waits
              /\ gets' = IF tried THEN gets + 1 ELSE gets
              /\ IF ok
                 THEN /\ soup' = p
                      /\ fpc' = "returned"
                      /\ attempt' = attempt
                      /\ served' = IF spc = "listing" THEN Append(served, p) ELSE served
                 ELSE /\ soup' = NoPage
                      /\ served' = served
                      /\ IF attempt = Retries - 1
                         THEN fpc' = "returned" /\ attempt' = attempt
                         ELSE fpc' = "loop" /\ attempt' = attempt + 1
    /\ UNCHANGED <<spc, page, bugs, di, fetch_details, requested, stubs, nopage, target>>
    /\ UNCHANGED <<syncVars, hashVars, mainVars>>

\* scrape_bugs after its listing loop: fetch the details of the first bug, or
\* return the list
AfterListing(list) ==
    /\ bugs' = list
    /\ stubs' = list
    /\ page' = page
    /\ requested' = requested
    /\ IF fetch_details /\ list # <<>>
       THEN spc' = "details" /\ di' = 1 /\ StartFetch(list[1].url)
       ELSE /\ spc' = "done" /\ di' = di
            /\ fpc' = "idle" /\ soup' = NoPage
            /\ UNCHANGED <<attempt, gets, waits, target>>

\* One iteration of scrape_bugs' while loop, from the return of _fetch_page.
ListingPage ==
    /\ spc = "listing" /\ fpc = "returned"
    /\ LET bug_rows == BugRows(soup)
           page_bugs == PageBugs(bug_rows)
       IN  IF soup = NoPage \/ bug_rows = <<>> \/ page_bugs = <<>>
           THEN AfterListing(bugs)
           ELSE IF ~soup.next
           THEN AfterListing(Extend(bugs, page_bugs))
           ELSE /\ bugs' = Extend(bugs, page_bugs)
                /\ page' = page + 1
                /\ requested' = Append(requested, page + 1)
                /\ StartFetch(GetBugsUrl(page + 1))
                /\ UNCHANGED <<spc, di, stubs>>
    /\ UNCHANGED <<fetch_details, served, nopage>>
    /\ UNCHANGED <<syncVars, hashVars, mainVars>>

\* bugs[i] = self._fetch_bug_details(bug), from the return of _fetch_page
DetailPage ==
    /\ spc = "details" /\ fpc = "returned"
    /\ bugs' = [bugs EXCEPT ![di] = FetchBugDetails(bugs[di], soup)]
    /\ nopage' = IF soup = NoPage THEN nopage \cup {di} ELSE nopage
    /\ IF di < Len(bugs)
       THEN /\ di' = di + 1 /\ spc' = "details"
            /\ StartFetch(bugs[di + 1].url)
       ELSE /\ spc' = "done" /\ di' = di
            /\ fpc' = "idle" /\ soup' = NoPage
            /\ UNCHANGED <<attempt, gets, waits, target>>
    /\ UNCHANGED <<page, fetch_details, served, requested, stubs>>
    /\ UNCHANGED <<syncVars, hashVars, mainVars>>

NextScrape == FetchAttempt \/ ListingPage \/ DetailPage

SpecScrape == InitScrape /\ [][NextScrape]_vars

(***************************************************************************)
(* Properties of NexusModsScraper (checked under SpecScrape).              *)
(***************************************************************************)
\* every listing page passed to _fetch_page came back parsed
FetchedAll == Len(served) = Len(requested)

RECURSIVE SiteBugs(_)
\* the records of the identifier-bearing rows of a sequence of listing pages,
\* in page order, then row order
SiteBugs(ps) ==
    IF ps = <<>> THEN <<>> ELSE PageBugs(BugRows(Head(ps))) \o SiteBugs(Tail(ps))

BugIds(list) == [i \in DOMAIN list |-> list[i].bug_id]

\* C9: Bounded retry of _fetch_page.  One call makes at most 3 GET attempts
\* and numbers them 0, 1, 2; before attempt k > 0 it sleeps 2^k seconds and
\* before attempt 0 it does not sleep; it returns at the first attempt that
\* succeeds, with the page parsed, and makes no GET after that; after three
\* failed attempts it returns None; each pass through the loop either returns
\* or moves on to the next attempt, and a call in its loop can always take a
\* pass, so the call ends after at most three.
C9_BoundedRetry ==
    /\ [](/\ attempt \in 0..2
          /\ gets <= 3
          /\ Len(waits) <= 2
          /\ \A k \in DOMAIN waits : waits[k] = 2 ^ k
          /\ fpc = "loop" => /\ Len(waits) = (IF attempt = 0 THEN 0 ELSE attempt - 1)
                             /\ gets <= attempt
                             /\ soup = NoPage
                             /\ ENABLED FetchAttempt
          /\ (fpc = "returned" /\ soup # NoPage)
                => /\ Len(waits) = attempt
                   /\ gets \in 1..(attempt + 1)
                   /\ spc = "listing" => soup = served[Len(served)]
          /\ (fpc = "returned" /\ soup = NoPage)
                => attempt = 2 /\ waits = <<2, 4>>)
    /\ [][fpc = "loop" => (fpc' = "returned" \/ (fpc' = "loop" /\ attempt' = attempt + 1))]_vars
    /\ [][fpc = "returned" => (gets' = gets \/ (fpc' = "loop" /\ gets' = 0 /\ attempt' = 0))]_vars

\* C9 witness: a listing fetch returned None after three GETs and sleeps of 2
\* and 4 seconds.
C9_Witness ==
    /\ spc = "listing" /\ fpc = "returned" /\ soup = NoPage
    /\ gets = 3 /\ waits = <<2, 4>>

\* C10 as stated: Pagination termination.  When every listing fetch returned a
\* page and every page served has bug rows, scrape_bugs has requested pages
\* 1..N once each in increasing order, page N is the first without a next-page
\* link, and the list returned holds the records of the identifier-bearing
\* rows of pages 1..N in page order, then row order.
C10_PaginationAsStated ==
    (/\ spc = "done" /\ FetchedAll
     /\ \A k \in DOMAIN served : BugRows(served[k]) # <<>>)
    => /\ requested = [k \in 1..Len(served) |-> k]
       /\ \A k \in DOMAIN served : served[k].next <=> k < Len(served)
       /\ BugIds(bugs) = BugIds(SiteBugs(served))

\* C10 restricted to pages of which each one that carries a next-page link has
\* at least one identifier-bearing row: there the statement holds, so it fails
\* only through the early stop of C11.
C10_Pagination ==
    (/\ spc = "done" /\ FetchedAll
     /\ \A k \in DOMAIN served : BugRows(served[k]) # <<>>
     /\ \A k \in DOMAIN served : served[k].next => PageBugs(BugRows(served[k])) # <<>>)
    => /\ requested = [k \in 1..Len(served) |-> k]
       /\ \A k \in DOMAIN served : served[k].next <=> k < Len(served)
       /\ BugIds(bugs) = BugIds(SiteBugs(served))

\* C10 witness: two listing pages were served, the first with a next-page link,
\* and the list returned holds a record from each.
C10_Witness ==
    /\ spc = "done" /\ FetchedAll
    /\ Len(served) = 2
    /\ \A k \in DOMAIN served : PageBugs(BugRows(served[k])) # <<>>
    /\ Len(bugs) = 2

\* C11: Pagination stop rule with dropped rows.  From the return of
\* _fetch_page for listing page N, scrape_bugs goes on to page N+1 exactly when
\* the page was fetched, has at least one bug row and has a next-page link (so
\* it stops only on a page without bug rows, without a next-page link or not
\* fetched); the rows of a fetched page add their identifier-bearing records to
\* the list, in row order, and a row without identifier adds nothing.
C11_StopRule ==
    [][(spc = "listing" /\ fpc = "returned")
         => LET advance == soup # NoPage /\ BugRows(soup) # <<>> /\ soup.next
            IN  /\ advance <=> (/\ spc' = "listing"
                                /\ page' = page + 1
                                /\ requested' = Append(requested, page + 1))
                /\ ~advance => spc' \in {"details", "done"} /\ page' = page
                /\ soup # NoPage => bugs' = bugs \o PageBugs(BugRows(soup))
                /\ soup = NoPage => bugs' = bugs]_vars

\* a record with its description blanked
NoDescription(bug) == [bug EXCEPT !.description = <<>>]

\* C12: Detail-fetch failure never removes a bug.  During and after the detail
\* loop, whatever the detail fetches returned, the list has the length of the
\* list of listing-derived stubs and its records are the stubs, in the same
\* order, but for their descriptions; a record whose detail fetch returned no
\* page is the stub itself, its description empty.
C12_DetailFailureKeepsBug ==
    spc \in {"details", "done"}
    => /\ Len(bugs) = Len(stubs)
       /\ \A i \in DOMAIN bugs : NoDescription(bugs[i]) = stubs[i]
       /\ \A i \in nopage : i \in DOMAIN bugs /\ bugs[i] = stubs[i]

\* C12 witness: of two bugs the first one's detail page gave a description and
\* the second one's detail fetch returned no page; scrape_bugs has returned.
C12_Witness ==
    /\ spc = "done" /\ fetch_details
    /\ Len(stubs) = 2 /\ nopage = {2}
    /\ bugs[1].description # <<>>

\* C16: Ids are unique within one scrape.  The list scrape_bugs returns holds
\* no two records with the same bug_id, whatever pages the site served.
C16_IdsUnique ==
    spc = "done"
    => \A i, j \in DOMAIN bugs : i # j => bugs[i].bug_id # bugs[j].bug_id

(***************************************************************************)
(* SpecMain: one run of main (sync.py).  The environment and --dry-run are *)
(* fixed at the start; scrape_bugs runs as in SpecScrape; the repository's *)
(* issues and labels become known when get_repo returns.                   *)
(***************************************************************************)
InitMain ==
    /\ mpc = "NEXUSMODS_GAME"
    /\ env \in [EnvNames -> EnvValues]
    /\ args_dry_run \in BOOLEAN
    /\ main_bugs = <<>> /\ exit_code = 0
    /\ SyncIdle /\ HashIdle /\ ScrapeIdle

\* where main goes on after get_env_var(name) returned value
AfterEnvVar(name, value) ==
    CASE name = "NEXUSMODS_GAME" -> "NEXUSMODS_MOD_ID"
      [] name = "NEXUSMODS_MOD_ID" -> "GITHUB_TOKEN"
      [] name = "GITHUB_TOKEN" -> "GITHUB_REPO"
      [] name = "GITHUB_REPO" -> IF value = "" THEN "GITHUB_REPOSITORY" ELSE "scrape"
      [] name = "GITHUB_REPOSITORY" -> "scrape"

\* get_env_var(name, required): sys.exit(1) when required and the value is empty
GetEnvVar ==
    /\ mpc \in EnvNames
    /\ LET value == EnvValue(env, mpc)
           required == mpc # "GITHUB_REPO"
       IN  IF required /\ value = ""
           THEN mpc' = "exited" /\ exit_code' = 1
           ELSE mpc' = AfterEnvVar(mpc, value) /\ exit_code' = exit_code
    /\ UNCHANGED <<env, args_dry_run, main_bugs>>
    /\ UNCHANGED <<syncVars, hashVars, scrapeVars, fetchVars>>

\* scraper = NexusModsScraper(game, mod_id); scraper.scrape_bugs(fetch_details=True)
\* is entered and fetches page 1
MainScrape ==
    /\ mpc = "scrape"
    /\ mpc' = "scraping"
    /\ spc' = "listing" /\ page' = 1 /\ bugs' = <<>> /\ di' = 0
    /\ fetch_details' = TRUE
    /\ served' = <<>> /\ requested' = <<1>> /\ stubs' = <<>> /\ nopage' = {}
    /\ StartFetch(GetBugsUrl(1))
    /\ UNCHANGED <<env, args_dry_run, main_bugs, exit_code>>
    /\ UNCHANGED <<syncVars, hashVars>>

\* `if not bugs` that never holds
NothingToSyncNever(list) == FALSE

\* if not bugs: ... return
NothingToSync(list) == list = <<>>

\* bugs = scraper.scrape_bugs(...) returns, its frame is gone; main returns when
\* the list is empty
MainScraped ==
    /\ mpc = "scraping" /\ spc = "done"
    /\ main_bugs' = bugs
    /\ spc' = "idle" /\ page' = 0 /\ bugs' = <<>> /\ di' = 0 /\ fetch_details' = FALSE
    /\ served' = <<>> /\ requested' = <<>> /\ stubs' = <<>> /\ nopage' = {}
    /\ fpc' = "idle" /\ attempt' = 0 /\ gets' = 0 /\ waits' = <<>> /\ soup' = NoPage
    /\ target' = "none"
    /\ IF NothingToSync(bugs)
       THEN mpc' = "exited" /\ exit_code' = 0
       ELSE mpc' = "construct" /\ exit_code' = exit_code
    /\ UNCHANGED <<env, args_dry_run>>
    /\ UNCHANGED <<syncVars, hashVars>>

\* github_sync = GitHubSync(github_token, github_repo, dry_run=args.dry_run).
\* gr: what get_repo does; an exception leaves main and the process exits 1.
MainConstruct ==
    /\ mpc = "construct"
    /\ \E gr \in Outcomes, gl \in Outcomes, cl \in Outcomes, iss \in SeedTrackers,
          labs \in SUBSET {NEXUSMODS_LABEL, SYNCED_LABEL} :
          LET o == ConstructOutcome(labs, args_dry_run, gl, cl)
          IN  /\ iss # <<>> => labs = {NEXUSMODS_LABEL, SYNCED_LABEL}
              /\ (gr = "raise" \/ Count(o.calls, "get_labels") = 0) => gl = "ok"
              /\ (gr = "raise" \/ Count(o.calls, "create_label") = 0) => cl = "ok"
              /\ gr = "raise" => iss = <<>> /\ labs = {}
              /\ IF gr = "raise"
                 THEN /\ calls' = <<"get_repo">>
                      /\ pc' = "aborted"
                      /\ mpc' = "exited" /\ exit_code' = 1
                      /\ UNCHANGED <<issues, labels, dry_run>>
                 ELSE /\ issues' = iss
                      /\ labels' = o.labels
                      /\ dry_run' = args_dry_run
                      /\ calls' = o.calls
                      /\ pc' = IF o.raised THEN "aborted" ELSE "syncing"
                      /\ mpc' = IF o.raised THEN "exited" ELSE "syncing"
                      /\ exit_code' = IF o.raised THEN 1 ELSE 0
    /\ results' = <<>>
    /\ UNCHANGED <<last, ncalls>>
    /\ UNCHANGED <<env, args_dry_run, main_bugs>>
    /\ UNCHANGED <<hashVars, scrapeVars, fetchVars>>

\* One iteration of sync_bugs' loop over main's list.
MainSyncBug ==
    /\ mpc = "syncing"
    /\ ncalls < Len(main_bugs)
    /\ \E so \in Outcomes, lo \in Outcomes, mo \in Outcomes :
          LET bug == main_bugs[ncalls + 1]
              o == SyncBugOutcome(issues, dry_run, bug, so, lo, mo)
          IN  /\ o.listing = "skipped" => lo = "ok"
              /\ NoMutation(o.calls) => mo = "ok"
              /\ issues' = o.issues
              /\ calls' = o.calls
              /\ last' = [bug |-> bug, existing |-> o.existing, search |-> o.search,
                          listing |-> o.listing, action |-> o.action]
              /\ IF o.raised
                 THEN /\ pc' = "aborted" /\ results' = <<>>
                      /\ mpc' = "exited" /\ exit_code' = 1
                 ELSE /\ pc' = "syncing"
                      /\ results' = Append(results, [bug_id |-> bug.bug_id,
                                                     action |-> o.action,
                                                     issue_number |-> o.number])
                      /\ mpc' = mpc /\ exit_code' = exit_code
    /\ ncalls' = ncalls + 1
    /\ UNCHANGED <<labels, dry_run>>
    /\ UNCHANGED <<env, args_dry_run, main_bugs>>
    /\ UNCHANGED <<hashVars, scrapeVars, fetchVars>>

\* sync_bugs returns its results; main prints the summary and returns
MainReturn ==
    /\ mpc = "syncing"
    /\ ncalls = Len(main_bugs)
    /\ pc' = "returned"
    /\ calls' = <<>>
    /\ mpc' = "exited" /\ exit_code' = 0
    /\ UNCHANGED <<issues, labels, dry_run, results, last, ncalls>>
    /\ UNCHANGED <<env, args_dry_run, main_bugs>>
    /\ UNCHANGED <<hashVars, scrapeVars, fetchVars>>

NextMain ==
    \/ GetEnvVar \/ MainScrape
    \/ FetchAttempt \/ ListingPage \/ DetailPage
    \/ MainScraped \/ MainConstruct \/ MainSyncBug \/ MainReturn

SpecMain == InitMain /\ [][NextMain]_vars

(***************************************************************************)
(* Properties of main (checked under SpecMain).                            *)
(***************************************************************************)
\* a variable is unset, empty or blank
Absent(e, name) == e[name] \in {Unset, "", " "}

\* a required setting is absent
Missing(e) ==
    \/ Absent(e, "NEXUSMODS_GAME")
    \/ Absent(e, "NEXUSMODS_MOD_ID")
    \/ Absent(e, "GITHUB_TOKEN")
    \/ (Absent(e, "GITHUB_REPO") /\ Absent(e, "GITHUB_REPOSITORY"))

\* no scraper was constructed and no page was fetched
NoScraping ==
    /\ spc = "idle" /\ fpc = "idle" /\ gets = 0
    /\ requested = <<>> /\ served = <<>> /\ main_bugs = <<>>

\* no GitHubSync was constructed and no tracker call was made
NoTracker ==
    /\ pc = "idle" /\ calls = <<>> /\ ncalls = 0 /\ results = <<>>
    /\ issues = <<>> /\ labels = {}

\* C13: Empty extraction ends the run before any tracker interaction.  Once
\* scrape_bugs has returned an empty list, main has returned (exit status 0)
\* with no GitHubSync constructed and no tracker call made (no get_repo, no
\* label, search, create or edit call), with and without --dry-run.
C13_EmptyExtractionEndsRun ==
    (/\ mpc \in {"construct", "syncing", "exited"}
     /\ ~Missing(env)
     /\ main_bugs = <<>>)
    => mpc = "exited" /\ exit_code = 0 /\ NoTracker

\* C13 witness: without --dry-run, with a complete configuration, main has
\* returned after scrape_bugs returned no record.
C13_Witness ==
    /\ mpc = "exited" /\ exit_code = 0
    /\ ~Missing(env) /\ ~args_dry_run
    /\ main_bugs = <<>>

\* C14: Missing configuration is fatal before any network activity.  When one
\* of the game, the mod id, the token or the repository (GITHUB_REPO and
\* GITHUB_REPOSITORY both) is unset, empty or blank, main never gets past
\* reading its settings: it exits with status 1, no scraper or GitHubSync is
\* constructed, no page is fetched and no tracker call is made.  With all four
\* present main does not exit while reading its settings.
C14_MissingConfigFatal ==
    /\ Missing(env)
          => /\ mpc \in EnvNames \cup {"exited"}
             /\ mpc = "exited" => exit_code = 1
             /\ mpc \in EnvNames => ENABLED GetEnvVar
             /\ NoScraping /\ NoTracker
    /\ ~Missing(env) => ~(mpc = "exited" /\ exit_code = 1 /\ NoScraping /\ NoTracker)

\* C14 witness: GITHUB_REPO is blank and GITHUB_REPOSITORY is unset, the other
\* settings are present, and main has exited with status 1.
C14_Witness ==
    /\ mpc = "exited" /\ exit_code = 1
    /\ env = [NoEnv EXCEPT !["NEXUSMODS_GAME"] = "v", !["NEXUSMODS_MOD_ID"] = "v",
                           !["GITHUB_TOKEN"] = "v", !["GITHUB_REPO"] = " "]

====
